---- MODULE Spec2Model ----
(***************************************************************************)
(* Cluster coordination layer of the multi-model database engine:          *)
(* node registry, heartbeat failure detector, gossip rounds, the           *)
(* hash partitioner and the replicator (internal/database/cluster.go).     *)
(***************************************************************************)
EXTENDS Integers, Sequences, FiniteSets, TLC

(* ---------------------------------------------------------------- bounds *)
MaxTime == 1
MaxR == 3
MaxBody == 1
MaxRunning == 2
MaxN == 5
MaxDocs == 2

(* ------------------------------------------------------------- constants *)
\* width of one limb of the 64-bit machine integer (Go int on 64-bit builds)
LimbBase == 65536
\* runGossipRound: nodesToGossip := 2
nodesToGossip == 2

(* ------------------------------------------------------------ node ids   *)
\* generateNodeID: "node-<unix seconds>-<rand>"
SelfID == "node-17-42"
\* ids of the form "node-<n>", as addNodeHandler builds them
PeerIds == {"node-1", "node-2"}
NodeIds == {SelfID} \cup PeerIds

\* the ids in the byte-wise order of Go strings
IdOrder == <<"node-1", "node-17-42", "node-2">>

\* position of an id in that order
IdRank(id) == CHOOSE i \in DOMAIN IdOrder : IdOrder[i] = id

Statuses == {"active", "inactive", "joining", "leaving"}
Addresses == {"localhost"}
Ports == {"9090"}

\* a key of c.nodes that is not present
NoNode == [absent |-> TRUE]
\* a nil *Node
Nil == "nil"
\* a run-time panic of the Go program (index out of range, nil dereference)
Panic == "panic"

Node(address, port, status, lastSeen) ==
    [address |-> address, port |-> port, status |-> status, lastSeen |-> lastSeen]

(* ------------------------------------------------------------ sequences  *)
Range(s) == {s[i] : i \in DOMAIN s}

\* all orders in which a Go map iteration can deliver the set S
Perms(S) ==
    {s \in [1..Cardinality(S) -> S] : \A i, j \in 1..Cardinality(S) : s[i] = s[j] => i = j}

IsSortedById(s) == \A i, j \in DOMAIN s : i < j => IdRank(s[i]) < IdRank(s[j])

VARIABLES
    nodes,        \* c.nodes: id -> Node record, or NoNode
    now,          \* time.Now().Unix()
    hbPc,         \* heartbeat goroutine: "idle", "ping", "update"
    hbNodes,      \* performHeartbeat: entries of the local slice not yet visited
    hbCur,        \* performHeartbeat: id of the node being probed
    hbAlive,      \* performHeartbeat: result of pingNode
    gPc,          \* gossip goroutine: "idle", "round"
    gActive,      \* runGossipRound: activeNodes
    gI,           \* runGossipRound: loop counter i
    gSent,        \* targets of the gossip requests posted in the current round
    ret,          \* the last GetActiveNodes or GetPartitionForKey call of a caller
    replicationFactor, \* c.config.ReplicationFactor
    rpPc,         \* ReplicateData call: "idle", "primary", "push", "done"
    rpKey,        \* ReplicateData: key
    rpActive,     \* ReplicateData: activeNodes (line 289)
    rpSnap,       \* GetPartitionForKey called at line 296: its activeNodes
    rpNodes,      \* ReplicateData: nodes, the replica list
    rpI,          \* ReplicateData: position of the push loop in nodes
    rpPushes,     \* the replication requests posted by the call, in order
    rpResult,     \* what the call returned: "ok", "InsufficientReplicas", "panic"
    keyValues,    \* db.keyValues
    cancelled,    \* c.ctx is done: cancelFunc has been called
    inbound,      \* the last request of a peer served by the router
    join,         \* the Join call: its position, its requests, its result
    tasks,        \* per task: position in its lock and network operations
    observed,     \* the Node record that a task has just read through a pointer
    documents,    \* db.documents: key -> Document, for the keys present
    graphNodes,   \* db.graphNodes: id -> GraphNode, for the ids present
    graphEdges,   \* db.graphEdges: id -> GraphEdge, for the ids present
    dbRet         \* the last call of a store operation and what it returned

vars == <<nodes, now, hbPc, hbNodes, hbCur, hbAlive, gPc, gActive, gI, gSent,
          ret, replicationFactor, rpPc, rpKey, rpActive, rpSnap, rpNodes, rpI,
          rpPushes, rpResult, keyValues, cancelled, inbound, join, tasks, observed,
          documents, graphNodes, graphEdges, dbRet>>

hbVars == <<hbPc, hbNodes, hbCur, hbAlive>>
gVars == <<gPc, gActive, gI, gSent>>
callVars == <<ret>>
rpVars == <<rpPc, rpKey, rpActive, rpSnap, rpNodes, rpI, rpPushes, rpResult>>
cfgVars == <<replicationFactor>>
kvVars == <<keyValues>>
srvVars == <<cancelled, inbound>>
lkVars == <<tasks, observed>>
dbVars == <<documents, graphNodes, graphEdges, dbRet>>
auxVars == <<join, lkVars, dbVars>>
\* the variables of the replicator, the configuration, the store and the server
restVars == <<cfgVars, rpVars, kvVars, srvVars, auxVars>>

(* -------------------------------------------------------------- registry *)
Present(reg, id) == reg[id] # NoNode

\* ids whose record has Status == "active"
ActiveIds(reg) == {id \in NodeIds : Present(reg, id) /\ reg[id].status = "active"}

\* NewCluster: the registry holds the self node only, Status "active";
\* LastSeen is left at its zero value
NewCluster ==
    [id \in NodeIds |->
        IF id = SelfID THEN Node("localhost", "9090", "active", 0) ELSE NoNode]

\* variant: a snapshot that does not filter on Status
GetActiveNodesUnfiltered(reg) == Perms({id \in NodeIds : Present(reg, id)})

\* the slices GetActiveNodes can return: the active nodes in map-iteration order
GetActiveNodes(reg) == Perms(ActiveIds(reg))

NoCall == [op |-> "none"]

\* keys are strings, given as the code points that `range key` delivers
KeyFoo == <<102, 111, 111>>
KeyUser42 == <<117, 115, 101, 114, 58, 52, 50>>
KeyEmpty == << >>
\* fourteen 'z': the accumulator has wrapped and is negative
KeyNeg == [i \in 1..14 |-> 122]
\* twenty 'a': the accumulator has wrapped and is positive
KeyWrap == [i \in 1..20 |-> 97]
Keys == {KeyFoo, KeyUser42, KeyEmpty, KeyNeg, KeyWrap}

\* a missing key of db.keyValues
NoValue == "none"
Values == {"v1"}

\* no ReplicateData call has been made
RpIdle ==
    /\ rpPc = "idle"
    /\ rpKey = << >>
    /\ rpActive = << >>
    /\ rpSnap = << >>
    /\ rpNodes = << >>
    /\ rpI = 0
    /\ rpPushes = << >>
    /\ rpResult = "none"

\* no request of a peer has been served
NoRequest == [path |-> "none"]

\* the goroutines and handlers that use the registry
Tasks == {"heartbeat", "gossip", "join", "replicate", "status", "addNode"}

\* a task that is not running
TaskIdle ==
    [pc |-> 0, held |-> "none", inflight |-> FALSE, target |-> Nil,
     alive |-> FALSE, before |-> NoNode]

\* the last step read no record
NoRead == [by |-> "none", id |-> Nil, rec |-> NoNode, committed |-> {NoNode}]

\* Join has not been called
JoinIdle == [pc |-> "idle", reqs |-> << >>]

\* no store operation has been called
NoDbCall == [op |-> "none"]

\* NewMultiModelDatabase and NewCluster
InitBase ==
    /\ nodes = NewCluster
    /\ now = 0
    /\ hbPc = "idle"
    /\ hbNodes = {}
    /\ hbCur = Nil
    /\ hbAlive = FALSE
    /\ gPc = "idle"
    /\ gActive = {}
    /\ gI = 0
    /\ gSent = << >>
    /\ ret = NoCall
    /\ RpIdle
    /\ keyValues = [key \in Keys |-> NoValue]
    /\ cancelled = FALSE
    /\ inbound = NoRequest
    /\ join = JoinIdle
    /\ tasks = [t \in Tasks |-> TaskIdle]
    /\ observed = NoRead
    /\ documents = << >>
    /\ graphNodes = << >>
    /\ graphEdges = << >>
    /\ dbRet = NoDbCall

\* LoadConfig with REPLICATION_FACTOR unset: the default 1
Init ==
    /\ InitBase
    /\ replicationFactor = 1

\* a value of an environment variable is a string, given by its characters
Digits == <<"0", "1", "2", "3", "4", "5", "6", "7", "8", "9">>

IsDigit(c) == \E d \in DOMAIN Digits : Digits[d] = c

DigitVal(c) == (CHOOSE d \in DOMAIN Digits : Digits[d] = c) - 1

\* the digits of a decimal string, without its sign
Unsigned(v) == IF Len(v) > 0 /\ v[1] \in {"+", "-"} THEN Tail(v) ELSE v

\* strconv.Atoi returns no error: an optional sign and at least one digit
AtoiOk(v) ==
    /\ Len(Unsigned(v)) > 0
    /\ \A i \in DOMAIN Unsigned(v) : IsDigit(Unsigned(v)[i])

RECURSIVE DecimalValue(_)
DecimalValue(ds) ==
    IF ds = << >> THEN 0
    ELSE 10 * DecimalValue(SubSeq(ds, 1, Len(ds) - 1)) + DigitVal(ds[Len(ds)])

\* strconv.Atoi
Atoi(v) ==
    IF v[1] = "-" THEN 0 - DecimalValue(Unsigned(v)) ELSE DecimalValue(Unsigned(v))

\* strconv.Itoa, for the values that the environment is given in the model
RECURSIVE Itoa(_)
Itoa(n) ==
    IF n < 0 THEN <<"-">> \o Itoa(0 - n)
    ELSE IF n < 10 THEN <<Digits[n + 1]>>
    ELSE Itoa(n \div 10) \o <<Digits[(n % 10) + 1]>>

\* getEnvOrDefaultInt: the default for an unset (empty) value and for one
\* that Atoi rejects; any integer that Atoi returns is taken as it is
getEnvOrDefaultInt(value, defaultValue) ==
    IF value # << >> /\ AtoiOk(value) THEN Atoi(value) ELSE defaultValue

\* REPLICATION_FACTOR: unset, not a number, or the decimal form of an integer
EnvValues ==
    {<< >>, <<"a", "b", "c">>, <<"2", "x">>} \cup {Itoa(n) : n \in (0 - 1)..MaxR}

\* LoadConfig, line 25: getEnvOrDefaultInt("REPLICATION_FACTOR", 1)
ReplicationFactors == {getEnvOrDefaultInt(v, 1) : v \in EnvValues}

InitConfig ==
    /\ InitBase
    /\ replicationFactor \in ReplicationFactors

\* the clock advances
Tick ==
    /\ now < MaxTime
    /\ now' = now + 1
    /\ UNCHANGED <<nodes, hbVars, gVars, callVars, restVars>>

\* variant: LastSeen is left at its zero value
AddNodeRegZeroTime(reg, id, address, port, status, t) ==
    [reg EXCEPT ![id] = Node(address, port, status, 0)]

\* AddNode: node.LastSeen = now; c.nodes[node.ID] = node
AddNodeReg(reg, id, address, port, status, t) ==
    [reg EXCEPT ![id] = Node(address, port, status, t)]

AddNodeWith(statuses) ==
    \E id \in NodeIds, address \in Addresses, port \in Ports, status \in statuses :
        /\ nodes' = AddNodeReg(nodes, id, address, port, status, now)
        /\ UNCHANGED <<now, hbVars, gVars, callVars, restVars>>

\* AddNode called with a node of any status
AddNode == AddNodeWith(Statuses)

\* AddNode called with a node of Status "active", as addNodeHandler calls it
AddActiveNode == AddNodeWith({"active"})

\* variant: the entry is deleted from the map
RemoveNodeDelete(reg, id) == [reg EXCEPT ![id] = NoNode]

\* RemoveNode: if the id exists, node.Status = "inactive"
RemoveNodeReg(reg, id) ==
    IF Present(reg, id) THEN [reg EXCEPT ![id].status = "inactive"] ELSE reg

RemoveNode ==
    \E id \in NodeIds :
        /\ nodes' = RemoveNodeReg(nodes, id)
        /\ UNCHANGED <<now, hbVars, gVars, callVars, restVars>>

\* addNodeHandler: fmt.Sprintf("node-%d", n) for the counts n of active nodes
\* whose id is in NodeIds
HandlerIds == <<"node-1", "node-2">>

\* addNodeHandler (POST /cluster/nodes): the id is built from the number of
\* active nodes, Status is "active", AddNode is called and the node is the
\* Data of the 200 response
AddNodeHandler ==
    /\ Cardinality(ActiveIds(nodes)) \in DOMAIN HandlerIds
    /\ \E address \in Addresses, port \in Ports :
        LET id == HandlerIds[Cardinality(ActiveIds(nodes))]
        IN  /\ nodes' = AddNodeReg(nodes, id, address, port, "active", now)
            /\ inbound' = [path |-> "/cluster/nodes",
                           body |-> [address |-> address, port |-> port],
                           code |-> 200,
                           data |-> [id |-> id,
                                     address |-> nodes'[id].address,
                                     port |-> nodes'[id].port,
                                     status |-> nodes'[id].status,
                                     lastSeen |-> nodes'[id].lastSeen]]
    /\ UNCHANGED <<now, hbVars, gVars, callVars, cfgVars, rpVars, kvVars, cancelled, auxVars>>

(* ------------------------------------------------------------- heartbeat *)
\* variant: only the active entries are copied
HeartbeatSnapshotActive(reg) == ActiveIds(reg)

\* performHeartbeat, lines 153-156: every entry of c.nodes, whatever its status
HeartbeatSnapshot(reg) == {id \in NodeIds : Present(reg, id)}

\* performHeartbeat, lines 152-157: copy every entry of c.nodes under RLock
HeartbeatStart ==
    /\ hbPc = "idle"
    /\ hbNodes' = HeartbeatSnapshot(nodes)
    /\ hbPc' = "ping"
    /\ UNCHANGED <<nodes, now, hbCur, hbAlive, gVars, callVars, restVars>>

\* performHeartbeat, lines 159-164: next entry of the slice (the slice is in
\* map-iteration order, so any unvisited entry can be next); self is skipped,
\* any other node is pinged, and the ping succeeds or fails
PingNode ==
    /\ hbPc = "ping"
    /\ hbNodes # {}
    /\ \E id \in hbNodes :
        /\ hbNodes' = hbNodes \ {id}
        /\ IF id = SelfID
           THEN UNCHANGED <<hbPc, hbCur, hbAlive>>
           ELSE /\ hbPc' = "update"
                /\ hbCur' = id
                /\ hbAlive' \in BOOLEAN
    /\ UNCHANGED <<nodes, now, gVars, callVars, restVars>>

\* variant: the goroutine returns after a round whose last probe failed
AfterRoundStopOnFailure(alive) == IF alive THEN "idle" ELSE "exited"

\* startHeartbeat, lines 140-147: performHeartbeat returns nothing and the
\* for loop goes back to its select, whatever the probes returned
AfterRound(alive) == "idle"

\* performHeartbeat: the loop is over
HeartbeatEnd ==
    /\ hbPc = "ping"
    /\ hbNodes = {}
    /\ hbPc' = AfterRound(hbAlive)
    /\ UNCHANGED <<nodes, now, hbNodes, hbCur, hbAlive, gVars, callVars, restVars>>

\* variant: a failed probe leaves the status as it is
updateNodeStatusLenient(reg, nodeID, alive, t) ==
    IF Present(reg, nodeID) /\ alive
    THEN [reg EXCEPT ![nodeID].status = "active", ![nodeID].lastSeen = t]
    ELSE reg

\* variant: a failed probe stores the time as well
updateNodeStatusStamped(reg, nodeID, alive, t) ==
    IF Present(reg, nodeID)
    THEN [reg EXCEPT ![nodeID].status = IF alive THEN "active" ELSE "inactive",
                     ![nodeID].lastSeen = t]
    ELSE reg

\* updateNodeStatus
updateNodeStatusReg(reg, nodeID, alive, t) ==
    IF Present(reg, nodeID)
    THEN IF alive
         THEN [reg EXCEPT ![nodeID].status = "active", ![nodeID].lastSeen = t]
         ELSE [reg EXCEPT ![nodeID].status = "inactive"]
    ELSE reg

UpdateNodeStatus ==
    /\ hbPc = "update"
    /\ nodes' = updateNodeStatusReg(nodes, hbCur, hbAlive, now)
    /\ hbPc' = "ping"
    /\ UNCHANGED <<now, hbNodes, hbCur, hbAlive, gVars, callVars, restVars>>

(* ---------------------------------------------------------------- gossip *)
\* runGossipRound, lines 214-224: snapshot; no-op with at most one active node
GossipStart ==
    /\ gPc = "idle"
    /\ \E snap \in GetActiveNodes(nodes) :
        IF Len(snap) <= 1
        THEN UNCHANGED <<gPc, gActive, gI>> /\ gSent' = << >>
        ELSE /\ gPc' = "round"
             /\ gActive' = Range(snap)
             /\ gI' = 0
             /\ gSent' = << >>
    /\ UNCHANGED <<nodes, now, hbVars, callVars, restVars>>

\* variant: a posted gossip request stamps the target as seen
exchangeGossipStamps(target) ==
    /\ gSent' = Append(gSent, target)
    /\ nodes' = [nodes EXCEPT ![target].lastSeen = now]

\* exchangeGossip: post the local active list to the target; the response is
\* not processed (lines 257-258), so the registry is left as it is
exchangeGossip(target) ==
    /\ gSent' = Append(gSent, target)
    /\ UNCHANGED nodes

\* variant: no picked node is skipped
SkipTargetNever(target) == FALSE

\* line 230: targetNode.ID == c.selfNode.ID
SkipTarget(target) == target = SelfID

\* runGossipRound, lines 226-235: one iteration; rand.Intn picks any entry
GossipStep ==
    /\ gPc = "round"
    /\ gI < nodesToGossip
    /\ \E target \in gActive :
        IF SkipTarget(target)
        THEN UNCHANGED <<gSent, nodes>>
        ELSE exchangeGossip(target)
    /\ gI' = gI + 1
    /\ UNCHANGED <<now, gPc, gActive, hbVars, callVars, restVars>>

GossipEnd ==
    /\ gPc = "round"
    /\ gI >= nodesToGossip
    /\ gPc' = "idle"
    /\ gActive' = {}
    /\ gI' = 0
    /\ UNCHANGED <<nodes, now, gSent, hbVars, callVars, restVars>>

(* -------------------------------------------------------------- shutdown *)
\* Close, lines 352-354: cancel the context and return; nothing waits for the
\* two goroutines
Close ==
    /\ ~cancelled
    /\ cancelled' = TRUE
    /\ UNCHANGED <<nodes, now, hbVars, gVars, callVars, cfgVars, rpVars, kvVars, inbound, auxVars>>

\* variant: the loops never take the ctx.Done() case
ObservesDoneNever(c) == FALSE

\* case <-c.ctx.Done() of the select of a loop is ready
ObservesDone(c) == c

\* startHeartbeat, lines 142-143: the select between rounds takes ctx.Done()
\* and the goroutine returns (with the ticker ready too, the select may as
\* well take the tick: HeartbeatStart stays enabled)
HeartbeatExit ==
    /\ hbPc = "idle"
    /\ ObservesDone(cancelled)
    /\ hbPc' = "exited"
    /\ UNCHANGED <<nodes, now, hbNodes, hbCur, hbAlive, gVars, callVars, restVars>>

\* startGossipProtocol, lines 204-205: the same for the gossip goroutine
GossipExit ==
    /\ gPc = "idle"
    /\ ObservesDone(cancelled)
    /\ gPc' = "exited"
    /\ UNCHANGED <<nodes, now, gActive, gI, gSent, hbVars, callVars, restVars>>

(* -------------------------------------------------------- inbound gossip *)
\* a Node record as a peer serialises it into a gossip request
GossipRecords == [id : NodeIds, status : {"active", "inactive"}, lastSeen : 0..MaxTime]

\* the ids of the records of a request body
BodyIds(body) == {rec.id : rec \in body}

\* the bodies of a gossip request: lists of records, one per id
GossipBodies ==
    {body \in SUBSET GossipRecords :
        /\ Cardinality(body) \in 1..MaxBody
        /\ Cardinality(BodyIds(body)) = Cardinality(body)}

\* variant: every gossiped record replaces the local one
ServeGossipOverwrite(reg, body) ==
    [id \in NodeIds |->
        IF id \in BodyIds(body)
        THEN LET rec == CHOOSE r \in body : r.id = id
             IN  Node("localhost", "9090", rec.status, rec.lastSeen)
        ELSE reg[id]]

\* the registry after POST /cluster/gossip has been served: SetupRoutes
\* registers no route for it, the catch-all route runs notFoundHandler, and
\* the body is never read
ServeGossip(reg, body) == reg

\* a peer posts its active list to /cluster/gossip; the answer is 404
ReceiveGossip ==
    /\ \E body \in GossipBodies :
        /\ nodes' = ServeGossip(nodes, body)
        /\ inbound' = [path |-> "/cluster/gossip", body |-> body, code |-> 404]
    /\ UNCHANGED <<now, hbVars, gVars, callVars, cfgVars, rpVars, kvVars, cancelled, auxVars>>

(* ------------------------------------------------------------------ join *)
\* the address of the seed node that Join is called with
SeedAddresses == {"seed:9090"}

\* what httpClient.Post returns: an error, or a response with a status code
JoinOutcomes ==
    {[err |-> TRUE]} \cup {[err |-> FALSE, code |-> c] : c \in {200, 201, 404, 500}}

\* json.Marshal(c.selfNode)
SelfNode(reg) ==
    [id |-> SelfID, address |-> reg[SelfID].address, port |-> reg[SelfID].port,
     status |-> reg[SelfID].status, lastSeen |-> reg[SelfID].lastSeen]

\* variant: every response is taken as a success
JoinResultAnyResponse(resp) == IF resp.err THEN "JoinFailed" ELSE "ok"

\* lines 77-86: an error of Post, or a status other than 200, is an error
JoinResult(resp) ==
    IF resp.err THEN "JoinFailed"
    ELSE IF resp.code # 200 THEN "JoinFailed"
    ELSE "ok"

\* Join, lines 73-76: the self node is posted to http://<seed>/cluster/join
JoinSend ==
    /\ join.pc \in {"idle", "done"}
    /\ \E seed \in SeedAddresses :
        join' = [pc |-> "wait",
                 reqs |-> <<[to |-> seed, path |-> "/cluster/join",
                             body |-> SelfNode(nodes)]>>]
    /\ UNCHANGED <<nodes, now, hbVars, gVars, callVars, cfgVars, rpVars, kvVars, srvVars,
                   lkVars, dbVars>>

\* Join, lines 77-86: the request has ended and Join returns
JoinReturn ==
    /\ join.pc = "wait"
    /\ \E resp \in JoinOutcomes :
        join' = [pc |-> "done", reqs |-> join.reqs, resp |-> resp,
                 result |-> JoinResult(resp)]
    /\ UNCHANGED <<nodes, now, hbVars, gVars, callVars, cfgVars, rpVars, kvVars, srvVars,
                   lkVars, dbVars>>

\* the registry after POST /cluster/join has been served: SetupRoutes
\* registers no route for it and notFoundHandler does not read the body
ServeJoin(reg, rec) == reg

\* a peer calls Join with the address of this node; the answer is 404
ReceiveJoin ==
    /\ \E rec \in GossipRecords :
        /\ rec.id \in PeerIds
        /\ rec.status = "active"
        /\ nodes' = ServeJoin(nodes, rec)
        /\ inbound' = [path |-> "/cluster/join", body |-> rec, code |-> 404]
    /\ UNCHANGED <<now, hbVars, gVars, callVars, cfgVars, rpVars, kvVars, cancelled, auxVars>>

(* ------------------------------------------------- registry lock (RWMutex) *)
\* The operations of one pass of each task on c.nodesMutex, on the network
\* and on the fields of a Node, in program order.

\* variant: the probe is sent before the read lock is released
ProgHeartbeatLockedPing ==
    <<"RLock", "Copy", "Send", "Recv", "RUnlock",
      "Lock", "SetStatus", "SetLastSeen", "Unlock">>

\* performHeartbeat for one entry of its slice: the copy under RLock
\* (152-157), pingNode (162), updateNodeStatus under Lock (163, 184-194)
ProgHeartbeat ==
    <<"RLock", "Copy", "RUnlock", "Send", "Recv",
      "Lock", "SetStatus", "SetLastSeen", "Unlock">>

\* runGossipRound and exchangeGossip for one target: GetActiveNodes (214),
\* GetActiveNodes (242), json.Marshal of the nodes (243), Post (245)
ProgGossip ==
    <<"RLock", "Copy", "RUnlock", "RLock", "Copy", "RUnlock", "Read", "Send", "Recv">>

\* Join: json.Marshal(c.selfNode) (75), Post (76)
ProgJoin == <<"Read", "Send", "Recv">>

\* ReplicateData for one replica: GetActiveNodes (289), GetPartitionForKey
\* (296, 263), replicateToNode (319, 338)
ProgReplicate ==
    <<"RLock", "Copy", "RUnlock", "RLock", "Copy", "RUnlock", "Send", "Recv">>

\* clusterStatusHandler: GetActiveNodes, then the fields of the nodes are read
\* (routes.go 463-473)
ProgStatus == <<"RLock", "Copy", "RUnlock", "Read">>

\* AddNode: Lock, c.nodes[node.ID] = node, Unlock (91-95)
ProgAddNode == <<"Lock", "Insert", "Unlock">>

Program(t) ==
    CASE t = "heartbeat" -> ProgHeartbeat
      [] t = "gossip" -> ProgGossip
      [] t = "join" -> ProgJoin
      [] t = "replicate" -> ProgReplicate
      [] t = "status" -> ProgStatus
      [] t = "addNode" -> ProgAddNode

Running == {t \in Tasks : tasks[t].pc > 0}

\* the operation that task t is about to do
Op(t) == Program(t)[tasks[t].pc]

\* the node that a task is started for: Join marshals the self node, AddNode
\* is called with a node whose id is not registered yet
StartTargets(t) ==
    CASE t = "join" -> {SelfID}
      [] t = "addNode" -> {id \in PeerIds : ~Present(nodes, id)}
      [] OTHER -> {Nil}

\* the nodes a task can take a pointer to under the read lock: the heartbeat
\* copies every entry and skips self, the others call GetActiveNodes
CopyTargets(t) ==
    IF t = "heartbeat"
    THEN {id \in PeerIds : Present(nodes, id)}
    ELSE ActiveIds(nodes)

\* sync.RWMutex: RLock waits for the writer, Lock for everybody
CanTake(t, op) ==
    CASE op = "RLock" -> \A u \in Tasks \ {t} : tasks[u].held # "W"
      [] op = "Lock" -> \A u \in Tasks \ {t} : tasks[u].held = "none"
      [] OTHER -> TRUE

\* a task is called
TaskStart ==
    /\ Cardinality(Running) < MaxRunning
    /\ \E t \in Tasks \ Running : \E id \in StartTargets(t) :
        tasks' = [tasks EXCEPT ![t] = [TaskIdle EXCEPT !.pc = 1, !.target = id]]
    /\ UNCHANGED <<nodes, now, hbVars, gVars, callVars, cfgVars, rpVars, kvVars, srvVars,
                   join, observed, dbVars>>

\* the records that a reader of node id can see without seeing a mutation
\* half done: with a writer inside updateNodeStatus for this id, the record
\* as it was when the writer took the lock, and the record as the writer
\* leaves it
Committed(id) ==
    LET W == {w \in Tasks : tasks[w].held = "W" /\ tasks[w].target = id}
    IN  IF W = {} THEN {nodes[id]}
        ELSE LET w == CHOOSE x \in W : TRUE
             IN  IF Op(w) = "SetLastSeen" /\ tasks[w].alive
                 THEN {tasks[w].before} \cup
                      {[tasks[w].before EXCEPT !.status = "active", !.lastSeen = t] :
                           t \in now..MaxTime}
                 ELSE {tasks[w].before, nodes[id]}

\* the registry after operation op of a task on node id
Written(reg, op, id, alive, t) ==
    CASE op = "SetStatus" ->
             [reg EXCEPT ![id].status = IF alive THEN "active" ELSE "inactive"]
      [] op = "SetLastSeen" ->
             IF alive THEN [reg EXCEPT ![id].lastSeen = t] ELSE reg
      [] op = "Insert" -> AddNodeReg(reg, id, "localhost", "9090", "active", t)
      [] OTHER -> reg

\* the task record after operation op
Stepped(t, op, id, alive) ==
    LET r == tasks[t]
        last == r.pc = Len(Program(t))
    IN  IF last \/ (op \in {"RUnlock"} /\ r.target = Nil)
        THEN TaskIdle
        ELSE [pc |-> r.pc + 1,
              held |-> CASE op = "RLock" -> "R"
                         [] op = "Lock" -> "W"
                         [] op \in {"RUnlock", "Unlock"} -> "none"
                         [] OTHER -> r.held,
              inflight |-> CASE op = "Send" -> TRUE
                             [] op = "Recv" -> FALSE
                             [] OTHER -> r.inflight,
              target |-> IF op = "Copy" THEN id ELSE r.target,
              alive |-> IF op = "Recv" THEN alive ELSE r.alive,
              before |-> IF op = "Lock" THEN nodes[r.target] ELSE r.before]

\* a running task does its next operation
TaskStep ==
    /\ \E t \in Running :
        LET op == Op(t)
        IN  /\ CanTake(t, op)
            /\ \E id \in (IF op = "Copy" THEN CopyTargets(t) \cup {Nil} ELSE {tasks[t].target}),
                  alive \in (IF op = "Recv" /\ t = "heartbeat" THEN BOOLEAN ELSE {tasks[t].alive}) :
                /\ op = "Copy" => (id = Nil <=> CopyTargets(t) = {})
                /\ tasks' = [tasks EXCEPT ![t] = Stepped(t, op, id, alive)]
                /\ nodes' = Written(nodes, op, tasks[t].target, tasks[t].alive, now)
                /\ observed' = IF op = "Read"
                               THEN [by |-> t, id |-> tasks[t].target,
                                     rec |-> nodes[tasks[t].target],
                                     committed |-> Committed(tasks[t].target)]
                               ELSE NoRead
    /\ UNCHANGED <<now, hbVars, gVars, callVars, cfgVars, rpVars, kvVars, srvVars, join,
                   dbVars>>

(* ----------------------------------------------------------- partitioner *)
\* A Go int (64 bits, two's complement) as four 16-bit limbs, least
\* significant first.
Zero64 == <<0, 0, 0, 0>>

\* carry (or borrow) propagation; the carry out of the top limb is dropped,
\* which is the wrap-around of the machine integer
Norm64(v) ==
    LET c1 == v[1] \div LimbBase
        c2 == (v[2] + c1) \div LimbBase
        c3 == (v[3] + c2) \div LimbBase
    IN  <<v[1] % LimbBase, (v[2] + c1) % LimbBase,
          (v[3] + c2) % LimbBase, (v[4] + c3) % LimbBase>>

\* variant: a shift by 4
Shl5By4(h) == Norm64(<<h[1] * 16, h[2] * 16, h[3] * 16, h[4] * 16>>)

\* hash << 5
Shl5(h) == Norm64(<<h[1] * 32, h[2] * 32, h[3] * 32, h[4] * 32>>)
\* a - b
Sub64(a, b) == Norm64(<<a[1] - b[1], a[2] - b[2], a[3] - b[3], a[4] - b[4]>>)
\* a + int(r), r a code point
AddRune(a, r) == Norm64(<<a[1] + r, a[2], a[3], a[4]>>)

\* the sign bit
IsNeg64(h) == h[4] >= LimbBase \div 2

\* the unsigned value of the four limbs, modulo n
UMod(h, n) ==
    LET m4 == h[4] % n
        m3 == (m4 * LimbBase + h[3]) % n
        m2 == (m3 * LimbBase + h[2]) % n
    IN  (m2 * LimbBase + h[1]) % n

\* 2^64 modulo n
TwoTo64Mod(n) ==
    LET b == LimbBase % n
        b2 == (b * b) % n
    IN  (b2 * b2) % n

\* Go's hash % n: the remainder has the sign of the dividend
GoRem(h, n) ==
    IF IsNeg64(h)
    THEN 0 - ((TwoTo64Mod(n) + n - UMod(h, n)) % n)
    ELSE UMod(h, n)

\* the values of a Go int
Word64 == [1..4 -> 0..(LimbBase - 1)]

\* lines 269-272: hash = (hash << 5) - hash + int(r), left to right
RECURSIVE HashFrom(_, _, _)
HashFrom(h, key, i) ==
    IF h \in Word64 /\ i <= Len(key)
    THEN HashFrom(AddRune(Sub64(Shl5(h), h), key[i]), key, i + 1)
    ELSE h

Hash(key) == HashFrom(Zero64, key, 1)

\* the accumulator of every key of the model, computed once
HashOf == [key \in Keys |-> Hash(key)]

\* variant: the remainder is used without negating a negative one
PartitionIndexSigned(key, n) == GoRem(HashOf[key], n)

\* lines 274-277, for an accumulator h and n nodes
IndexOf(h, n) ==
    LET index == GoRem(h, n)
    IN  IF index < 0 THEN 0 - index ELSE index

\* lines 274-277: index := hash % len(activeNodes); a negative index is negated
PartitionIndex(key, n) == IndexOf(HashOf[key], n)

\* activeNodes[index]; an index out of range is a run-time panic
ElemAt(s, index) == IF index + 1 \in DOMAIN s THEN s[index + 1] ELSE Panic

\* GetPartitionForKey on the snapshot that its GetActiveNodes call returned
GetPartitionForKey(key, snap) ==
    IF Len(snap) = 0 THEN Nil
    ELSE ElemAt(snap, PartitionIndex(key, Len(snap)))

\* a caller (clusterStatusHandler, addNodeHandler) takes the active snapshot
GetActiveNodesCall ==
    /\ \E snap \in GetActiveNodes(nodes) :
        ret' = [op |-> "GetActiveNodes", snap |-> snap]
    /\ UNCHANGED <<nodes, now, hbVars, gVars, restVars>>

\* a caller asks for the owner of a key
GetPartitionForKeyCallOf(keys) ==
    /\ \E key \in keys, snap \in GetActiveNodes(nodes) :
        ret' = [op |-> "GetPartitionForKey", key |-> key, snap |-> snap,
                index |-> IF Len(snap) = 0 THEN 0 ELSE PartitionIndex(key, Len(snap)),
                node |-> GetPartitionForKey(key, snap)]
    /\ UNCHANGED <<nodes, now, hbVars, gVars, restVars>>

GetPartitionForKeyCall == GetPartitionForKeyCallOf(Keys)

(* ------------------------------------------------------------ replicator *)
\* variant: the primary is never looked up in the snapshot
PrimaryIdxZero(active, primary) == 0

\* lines 294-311: the replica list, from the primary that GetPartitionForKey
\* returned and the snapshot of line 289; primaryIdx stays 0 when the primary
\* is not in the snapshot; a nil primary is dereferenced at line 303
PrimaryIdx(active, primary) ==
    IF \E j \in DOMAIN active : active[j] = primary
    THEN (CHOOSE j \in DOMAIN active :
            active[j] = primary /\ \A k \in 1..(j - 1) : active[k] # primary) - 1
    ELSE 0

\* the number of replicas appended by the loop of line 299
ExtraReplicas(active, r) ==
    IF r - 1 < Len(active) - 1 THEN r - 1 ELSE Len(active) - 1

\* variant: every added replica is the direct successor of the primary
ReplicaNodesSameStep(active, primary, r) ==
    <<primary>> \o
    [i \in 1..ExtraReplicas(active, r) |->
        active[((PrimaryIdx(active, primary) + 1) % Len(active)) + 1]]

ReplicaNodes(active, primary, r) ==
    <<primary>> \o
    [i \in 1..ExtraReplicas(active, r) |->
        active[((PrimaryIdx(active, primary) + i) % Len(active)) + 1]]

\* variant: only a factor below 1 skips replication
NoReplicationNeededBelowOne(r) == r < 1

\* variant: one active node fewer than the factor is accepted
NotEnoughNodesLoose(n, r) == n < r - 1

\* line 285: replicationFactor <= 1, no replication needed
NoReplicationNeeded(r) == r <= 1

\* line 290: len(activeNodes) < replicationFactor
NotEnoughNodes(n, r) == n < r

\* lines 284-292: the replication factor is read, then the active snapshot
ReplicateStartOf(keys) ==
    /\ rpPc \in {"idle", "done"}
    /\ \E key \in keys, active \in GetActiveNodes(nodes) :
        /\ rpKey' = key
        /\ rpSnap' = << >>
        /\ rpNodes' = << >>
        /\ rpI' = 0
        /\ rpPushes' = << >>
        /\ IF NoReplicationNeeded(replicationFactor)
           THEN /\ rpPc' = "done"
                /\ rpResult' = "ok"
                /\ rpActive' = << >>
           ELSE /\ rpActive' = active
                /\ IF NotEnoughNodes(Len(active), replicationFactor)
                   THEN /\ rpPc' = "done"
                        /\ rpResult' = "InsufficientReplicas"
                   ELSE /\ rpPc' = "primary"
                        /\ rpResult' = "none"
    /\ UNCHANGED <<nodes, now, hbVars, gVars, callVars, cfgVars, kvVars, srvVars, auxVars>>

ReplicateStart == ReplicateStartOf(Keys)

\* lines 295-311: GetPartitionForKey takes its own snapshot, then the ring walk
ReplicatePrimary ==
    /\ rpPc = "primary"
    /\ \E snap \in GetActiveNodes(nodes) :
        LET primary == GetPartitionForKey(rpKey, snap)
        IN  /\ rpSnap' = snap
            /\ IF primary = Nil
               THEN /\ rpPc' = "done"
                    /\ rpResult' = Panic
                    /\ UNCHANGED <<rpNodes, rpI>>
               ELSE /\ rpPc' = "push"
                    /\ rpNodes' = ReplicaNodes(rpActive, primary, replicationFactor)
                    /\ rpI' = 1
                    /\ UNCHANGED rpResult
    /\ UNCHANGED <<nodes, now, hbVars, gVars, callVars, cfgVars, kvVars, srvVars, auxVars,
                   rpKey, rpActive, rpPushes>>

\* variant: the first failed request ends the loop over the n replicas
AfterPushAbort(i, ok, n) == IF ok THEN i + 1 ELSE n + 1

\* lines 319-322: an error of replicateToNode is logged and the loop goes on
AfterPush(i, ok, n) == i + 1

\* lines 314-323: one iteration of the push loop; self is skipped; the request
\* of replicateToNode succeeds or fails, and a failure is only logged
ReplicatePush ==
    /\ rpPc = "push"
    /\ rpI <= Len(rpNodes)
    /\ IF rpNodes[rpI] = SelfID
       THEN /\ UNCHANGED rpPushes
            /\ rpI' = rpI + 1
       ELSE \E ok \in BOOLEAN :
                /\ rpPushes' = Append(rpPushes, [to |-> rpNodes[rpI], ok |-> ok])
                /\ rpI' = AfterPush(rpI, ok, Len(rpNodes))
    /\ UNCHANGED <<nodes, now, hbVars, gVars, callVars, cfgVars, kvVars, srvVars, auxVars,
                   rpPc, rpKey, rpActive, rpSnap, rpNodes, rpResult>>

\* line 325: return nil
ReplicateReturn ==
    /\ rpPc = "push"
    /\ rpI > Len(rpNodes)
    /\ rpPc' = "done"
    /\ rpResult' = "ok"
    /\ rpI' = 0
    /\ UNCHANGED <<nodes, now, hbVars, gVars, callVars, cfgVars, kvVars, srvVars, auxVars,
                   rpKey, rpActive, rpSnap, rpNodes, rpPushes>>

(* ----------------------------------------------------------------- store *)
\* SetKeyValue: db.keyValues[key] = value
SetKeyValueOf(keys) ==
    /\ \E key \in keys, value \in Values :
        keyValues' = [keyValues EXCEPT ![key] = value]
    /\ UNCHANGED <<nodes, now, hbVars, gVars, callVars, cfgVars, rpVars, srvVars, auxVars>>

SetKeyValue == SetKeyValueOf({KeyUser42})

(* -------------------------------------------------------- document store *)
\* A Go string is the sequence of its characters.
ColA == <<"a">>
ColAB == <<"a", ".", "b">>
ColUser == <<"u", "s", "e", "r">>
ColUsers == <<"u", "s", "e", "r", "s">>
IdC == <<"c">>
IdBC == <<"b", ".", "c">>

Collections == {ColA, ColAB, ColUser, ColUsers}
DocIds == {IdC, IdBC}

\* a Document is a map[string]interface{}: per field its value, or Missing
\* for a field that is not a key of the map
Fields == {"name"}
FieldValues == {"x", "y"}
Missing == "-"
Documents == [Fields -> FieldValues \cup {Missing}]

\* variant: a separator that no collection and no id contains
DocKeySlash(collection, id) == collection \o <<"/">> \o id

\* collection + "." + id
DocKey(collection, id) == collection \o <<".">> \o id

\* a map with one more (or one replaced) entry, and with one entry less
Put(m, key, value) ==
    [k \in DOMAIN m \cup {key} |-> IF k = key THEN value ELSE m[k]]

Drop(m, key) == [k \in DOMAIN m \ {key} |-> m[k]]

\* what a document operation returns, with the call it answers
DocRet(op, collection, id, arg, err, doc, result) ==
    [op |-> op, collection |-> collection, id |-> id, arg |-> arg, err |-> err,
     doc |-> doc, result |-> result]

\* InsertDocument, lines 84-94
InsertDocument ==
    /\ \E collection \in Collections, id \in DocIds, doc \in Documents :
        LET key == DocKey(collection, id) IN
        /\ key \in DOMAIN documents \/ Cardinality(DOMAIN documents) < MaxDocs
        /\ IF key \in DOMAIN documents
           THEN /\ dbRet' = DocRet("InsertDocument", collection, id, doc, "exists",
                                   << >>, {})
                /\ UNCHANGED documents
           ELSE /\ documents' = Put(documents, key, doc)
                /\ dbRet' = DocRet("InsertDocument", collection, id, doc, "",
                                   << >>, {})
    /\ UNCHANGED <<nodes, now, hbVars, gVars, callVars, cfgVars, rpVars, kvVars, srvVars,
                   join, lkVars, graphNodes, graphEdges>>

\* GetDocument, lines 96-106: the document, or nil and an error
GetDocument ==
    /\ \E collection \in Collections, id \in DocIds :
        LET key == DocKey(collection, id) IN
        dbRet' = IF key \in DOMAIN documents
                 THEN DocRet("GetDocument", collection, id, << >>, "",
                             <<documents[key]>>, {})
                 ELSE DocRet("GetDocument", collection, id, << >>, "not found",
                             << >>, {})
    /\ UNCHANGED <<nodes, now, hbVars, gVars, callVars, cfgVars, rpVars, kvVars, srvVars,
                   join, lkVars, documents, graphNodes, graphEdges>>

\* UpdateDocument, lines 118-121: for k, v := range updates { doc[k] = v }
Merge(doc, updates) ==
    [f \in Fields |-> IF updates[f] # Missing THEN updates[f] ELSE doc[f]]

\* UpdateDocument, lines 108-125
UpdateDocument ==
    /\ \E collection \in Collections, id \in DocIds, updates \in Documents :
        LET key == DocKey(collection, id) IN
        IF key \in DOMAIN documents
        THEN /\ documents' = Put(documents, key, Merge(documents[key], updates))
             /\ dbRet' = DocRet("UpdateDocument", collection, id, updates, "",
                                << >>, {})
        ELSE /\ dbRet' = DocRet("UpdateDocument", collection, id, updates,
                                "not found", << >>, {})
             /\ UNCHANGED documents
    /\ UNCHANGED <<nodes, now, hbVars, gVars, callVars, cfgVars, rpVars, kvVars, srvVars,
                   join, lkVars, graphNodes, graphEdges>>

\* DeleteDocument, lines 127-138
DeleteDocument ==
    /\ \E collection \in Collections, id \in DocIds :
        LET key == DocKey(collection, id) IN
        IF key \in DOMAIN documents
        THEN /\ documents' = Drop(documents, key)
             /\ dbRet' = DocRet("DeleteDocument", collection, id, << >>, "",
                                << >>, {})
        ELSE /\ dbRet' = DocRet("DeleteDocument", collection, id, << >>,
                                "not found", << >>, {})
             /\ UNCHANGED documents
    /\ UNCHANGED <<nodes, now, hbVars, gVars, callVars, cfgVars, rpVars, kvVars, srvVars,
                   join, lkVars, graphNodes, graphEdges>>

\* QueryDocuments, line 295:
\* collection == "" || len(collection) <= len(key) && key[:len(collection)] == collection
InCollection(collection, key) ==
    \/ collection = << >>
    \/ /\ Len(collection) <= Len(key)
       /\ SubSeq(key, 1, Len(collection)) = collection

\* QueryDocuments, lines 297-303: every field of the filter is a field of
\* the document with the same value
MatchesFilter(doc, filter) ==
    \A f \in Fields : filter[f] # Missing => doc[f] # Missing /\ doc[f] = filter[f]

\* QueryDocuments, lines 288-312. The result is the matching documents in
\* the order of the map iteration; each is given here with the key it was
\* read under, and the order is left out.
QueryDocuments ==
    /\ \E collection \in Collections \cup {<< >>}, filter \in Documents :
        dbRet' = DocRet("QueryDocuments", collection, << >>, filter, "", << >>,
                        {[key |-> key, doc |-> documents[key]] :
                            key \in {k \in DOMAIN documents :
                                        /\ InCollection(collection, k)
                                        /\ MatchesFilter(documents[k], filter)}})
    /\ UNCHANGED <<nodes, now, hbVars, gVars, callVars, cfgVars, rpVars, kvVars, srvVars,
                   join, lkVars, documents, graphNodes, graphEdges>>

(* ----------------------------------------------------------- graph store *)
GraphNodeIds == {"n1", "n2"}
GraphEdgeIds == {"e1", "e2"}
Labels == {<<"Person">>}
EdgeTypes == {"KNOWS"}

\* what a graph operation returns, with the call it answers
GraphRet(op, id, from, to, err) ==
    [op |-> op, id |-> id, from |-> from, to |-> to, err |-> err]

\* CreateNode, lines 217-233
CreateNode ==
    /\ \E id \in GraphNodeIds, labels \in Labels :
        IF id \in DOMAIN graphNodes
        THEN /\ dbRet' = GraphRet("CreateNode", id, Nil, Nil, "exists")
             /\ UNCHANGED graphNodes
        ELSE /\ graphNodes' = Put(graphNodes, id, [id |-> id, labels |-> labels])
             /\ dbRet' = GraphRet("CreateNode", id, Nil, Nil, "")
    /\ UNCHANGED <<nodes, now, hbVars, gVars, callVars, cfgVars, rpVars, kvVars, srvVars,
                   join, lkVars, documents, graphEdges>>

\* variant: the target node is not looked up
CreateEdgeErrorSourceOnly(edges, gnodes, id, from, to) ==
    IF id \in DOMAIN edges THEN "exists"
    ELSE IF from \notin DOMAIN gnodes THEN "no source"
    ELSE ""

\* CreateEdge, lines 251-261: the error it returns, "" for nil
CreateEdgeError(edges, gnodes, id, from, to) ==
    IF id \in DOMAIN edges THEN "exists"
    ELSE IF from \notin DOMAIN gnodes THEN "no source"
    ELSE IF to \notin DOMAIN gnodes THEN "no target"
    ELSE ""

\* CreateEdge, lines 247-273
CreateEdge ==
    /\ \E id \in GraphEdgeIds, from \in GraphNodeIds, to \in GraphNodeIds,
          edgeType \in EdgeTypes :
        LET err == CreateEdgeError(graphEdges, graphNodes, id, from, to) IN
        /\ dbRet' = GraphRet("CreateEdge", id, from, to, err)
        /\ IF err = ""
           THEN graphEdges' = Put(graphEdges, id,
                                  [id |-> id, from |-> from, to |-> to,
                                   type |-> edgeType])
           ELSE UNCHANGED graphEdges
    /\ UNCHANGED <<nodes, now, hbVars, gVars, callVars, cfgVars, rpVars, kvVars, srvVars,
                   join, lkVars, documents, graphNodes>>

Next ==
    \/ Tick
    \/ AddNode
    \/ RemoveNode
    \/ HeartbeatStart
    \/ PingNode
    \/ HeartbeatEnd
    \/ UpdateNodeStatus
    \/ GossipStart
    \/ GossipStep
    \/ GossipEnd

Spec == Init /\ [][Next]_vars

\* the registry, the clock and the failure detector
NextHeartbeat ==
    \/ Tick
    \/ AddNode
    \/ RemoveNode
    \/ HeartbeatStart
    \/ PingNode
    \/ HeartbeatEnd
    \/ UpdateNodeStatus

SpecHeartbeat == Init /\ [][NextHeartbeat]_vars

\* the registry, the failure detector and the callers of the partitioner
NextPart ==
    \/ AddNode
    \/ RemoveNode
    \/ HeartbeatStart
    \/ PingNode
    \/ HeartbeatEnd
    \/ UpdateNodeStatus
    \/ GetActiveNodesCall
    \/ GetPartitionForKeyCall

SpecPart == Init /\ [][NextPart]_vars

\* the registry, the clock and the gossip requests of peers
NextGossipIn ==
    \/ Tick
    \/ AddActiveNode
    \/ RemoveNode
    \/ ReceiveGossip

SpecGossipIn == Init /\ [][NextGossipIn]_vars

\* the registry and the gossip goroutine
NextGossip ==
    \/ AddNode
    \/ RemoveNode
    \/ GossipStart
    \/ GossipStep
    \/ GossipEnd

SpecGossip == Init /\ [][NextGossip]_vars

\* the two goroutines from construction to shutdown
NextLife ==
    \/ AddActiveNode
    \/ Close
    \/ HeartbeatStart
    \/ PingNode
    \/ UpdateNodeStatus
    \/ HeartbeatEnd
    \/ HeartbeatExit
    \/ GossipStart
    \/ GossipStep
    \/ GossipEnd
    \/ GossipExit

SpecLife == Init /\ [][NextLife]_vars

\* a round in flight goes on: every request ends within the 10 s timeout of
\* the http client (WF); a select that has ctx.Done() ready again and again
\* takes it in the end, the choice between ready cases being random (SF)
FairLife ==
    /\ WF_vars(PingNode)
    /\ WF_vars(UpdateNodeStatus)
    /\ WF_vars(HeartbeatEnd)
    /\ WF_vars(GossipStep)
    /\ WF_vars(GossipEnd)
    /\ SF_vars(HeartbeatExit)
    /\ SF_vars(GossipExit)

SpecLive == SpecLife /\ FairLife

\* the tickers of the two loops fire every 5 s and every 10 s: a loop that
\* waits in its select gets a tick
FairTicks ==
    /\ WF_vars(HeartbeatStart)
    /\ WF_vars(GossipStart)

SpecTicks == SpecLife /\ FairLife /\ FairTicks

\* Join of this node to a seed, Join of a peer to this node, and the gossip
\* goroutine
NextJoin ==
    \/ AddActiveNode
    \/ RemoveNode
    \/ JoinSend
    \/ JoinReturn
    \/ ReceiveJoin
    \/ GossipStart
    \/ GossipStep
    \/ GossipEnd

SpecJoin == Init /\ [][NextJoin]_vars

\* the partitioner called for every key over every active membership
NextHash ==
    \/ AddActiveNode
    \/ RemoveNode
    \/ GetPartitionForKeyCall

SpecHash == Init /\ [][NextHash]_vars

\* every operation that writes the registry, and the clock
NextRegistry ==
    \/ Tick
    \/ AddActiveNode
    \/ AddNodeHandler
    \/ RemoveNode
    \/ HeartbeatStart
    \/ PingNode
    \/ HeartbeatEnd
    \/ UpdateNodeStatus

SpecRegistry == Init /\ [][NextRegistry]_vars

\* the registry as the HTTP API, RemoveNode and the failure detector write it
NextApi ==
    \/ Tick
    \/ AddNodeHandler
    \/ RemoveNode
    \/ HeartbeatStart
    \/ PingNode
    \/ HeartbeatEnd
    \/ UpdateNodeStatus

SpecApi == Init /\ [][NextApi]_vars

\* the tasks that share the registry, at the grain of their lock operations
NextLock ==
    \/ Tick
    \/ TaskStart
    \/ TaskStep

SpecLock == Init /\ [][NextLock]_vars

\* the document store
NextDocs ==
    \/ InsertDocument
    \/ GetDocument
    \/ UpdateDocument
    \/ DeleteDocument
    \/ QueryDocuments

SpecDocs == Init /\ [][NextDocs]_vars

\* the graph store
NextGraph ==
    \/ CreateNode
    \/ CreateEdge

SpecGraph == Init /\ [][NextGraph]_vars

\* the failure detector from construction to shutdown, with nodes of any
\* status added and removed
NextProbe ==
    \/ AddNode
    \/ RemoveNode
    \/ Close
    \/ HeartbeatStart
    \/ PingNode
    \/ UpdateNodeStatus
    \/ HeartbeatEnd
    \/ HeartbeatExit

\* the ticker fires every 5 s while the loop waits in its select, a probe
\* ends within the timeout of the http client, and the loop goes on after it
FairProbe ==
    /\ WF_vars(HeartbeatStart)
    /\ WF_vars(PingNode)
    /\ WF_vars(UpdateNodeStatus)
    /\ WF_vars(HeartbeatEnd)

SpecProbe == Init /\ [][NextProbe]_vars /\ FairProbe

\* An operation that only reads the registry has not been called yet.
GossipUnused == gPc = "idle" /\ gSent = << >>
JoinUnused == join = JoinIdle
CallUnused == ret = NoCall
ReplicateUnused == rpPc = "idle"

\* the failure detector and AddNode next to one of the operations that read
\* the registry (a gossip round, Join, GetPartitionForKey, ReplicateData of
\* one key); these share no variable with one another, so a behaviour runs
\* one of them, with REPLICATION_FACTOR=2
InitFrame ==
    /\ InitBase
    /\ replicationFactor = getEnvOrDefaultInt(<<"2">>, 1)

NextFrame ==
    \/ Tick
    \/ AddActiveNode
    \/ HeartbeatStart
    \/ PingNode
    \/ UpdateNodeStatus
    \/ HeartbeatEnd
    \/ JoinUnused /\ CallUnused /\ ReplicateUnused /\ GossipStart
    \/ GossipStep
    \/ GossipEnd
    \/ GossipUnused /\ CallUnused /\ ReplicateUnused /\ JoinSend
    \/ JoinReturn
    \/ GossipUnused /\ JoinUnused /\ ReplicateUnused /\ GetPartitionForKeyCallOf({KeyUser42})
    \/ GossipUnused /\ JoinUnused /\ CallUnused /\ ReplicateStartOf({KeyUser42})
    \/ ReplicatePrimary
    \/ ReplicatePush
    \/ ReplicateReturn

SpecFrame == InitFrame /\ [][NextFrame]_vars

\* the registry, the store and the replicator, for any configured factor
NextRepl ==
    \/ AddActiveNode
    \/ RemoveNode
    \/ SetKeyValue
    \/ ReplicateStart
    \/ ReplicatePrimary
    \/ ReplicatePush
    \/ ReplicateReturn

SpecRepl == InitConfig /\ [][NextRepl]_vars

(* ---------------------------------------------------------------- claims *)

\* C1: in every reachable state the self node's record is present in the
\* registry and has status active.
C1_SelfPresentAndActive ==
    Present(nodes, SelfID) /\ nodes[SelfID].status = "active"

\* C2: in a heartbeat round every non-self node of the snapshot is probed, and
\* the update that follows one probe sets the node active with last_seen = now
\* when the probe succeeded, and inactive when that single probe failed.
C2_SingleProbeDecides ==
    [][ /\ (hbPc = "ping" /\ hbNodes' # hbNodes) =>
             \A id \in hbNodes \ hbNodes' :
                 id # SelfID => (hbPc' = "update" /\ hbCur' = id)
        /\ (hbPc = "update" /\ hbPc' = "ping") =>
             /\ hbCur # SelfID
             /\ Present(nodes', hbCur)
             /\ IF hbAlive
                THEN /\ nodes'[hbCur].status = "active"
                     /\ nodes'[hbCur].lastSeen = now
                ELSE nodes'[hbCur].status = "inactive"
      ]_vars

\* a peer that was added at an earlier time has just failed one probe
C2_Witness ==
    /\ hbPc = "ping"
    /\ hbCur \in PeerIds
    /\ ~hbAlive
    /\ nodes[hbCur].status = "inactive"
    /\ nodes[hbCur].lastSeen < now

\* a snapshot or an owner returned by a call contains active ids only
SnapshotIsActive ==
    /\ ret'.op = "GetActiveNodes" => Range(ret'.snap) \subseteq ActiveIds(nodes)
    /\ ret'.op = "GetPartitionForKey" =>
         /\ Range(ret'.snap) \subseteq ActiveIds(nodes)
         /\ ret'.node \in ActiveIds(nodes) \cup {Nil}

\* the heartbeat step that records a successful probe of id
ProbeSucceeded(id) == hbPc = "update" /\ hbCur = id /\ hbAlive

\* an AddNode step that registers id with status active
AddedActive(id) ==
    \E address \in Addresses, port \in Ports :
        nodes' = AddNodeReg(nodes, id, address, port, "active", now)

Reactivated(id) ==
    /\ Present(nodes, id)
    /\ nodes[id].status = "inactive"
    /\ nodes'[id].status = "active"

\* C3 as claimed: an inactive id is in no snapshot and is no owner, and it
\* becomes active again only by a successful probe (the code has no gossip
\* merge).
C3_InactiveUntilProbe ==
    [][ /\ (ret' # ret => SnapshotIsActive)
        /\ \A id \in NodeIds : Reactivated(id) => ProbeSucceeded(id)
      ]_vars

\* C3, amended: an inactive id is in no snapshot and is no owner, and it
\* becomes active again only by a successful probe or by an AddNode call
\* that registers this id with status active.
C3_InactiveUntilProbeOrAdd ==
    [][ /\ (ret' # ret => SnapshotIsActive)
        /\ \A id \in NodeIds :
               Reactivated(id) => (ProbeSucceeded(id) \/ AddedActive(id))
      ]_vars

\* a peer is inactive and the snapshot just returned leaves it out
C3_Witness ==
    /\ ret.op = "GetPartitionForKey"
    /\ Range(ret.snap) = ActiveIds(nodes)
    /\ ret.node \in NodeIds
    /\ \E id \in PeerIds :
        /\ Present(nodes, id)
        /\ nodes[id].status = "inactive"
        /\ id \notin Range(ret.snap)

\* C4: GetPartitionForKey returns the node at an index within [0, N) of its
\* snapshot of size N >= 1, nil when N = 0, and self when self is the only
\* active node, for every key, also one whose accumulator wrapped or is
\* negative.
C4_OwnerIndexInRange ==
    ret.op = "GetPartitionForKey" =>
        LET n == Len(ret.snap)
        IN  /\ n = 0 => ret.node = Nil
            /\ n >= 1 => /\ ret.index \in 0..(n - 1)
                         /\ ret.node = ret.snap[ret.index + 1]
            /\ Range(ret.snap) = {SelfID} => ret.node = SelfID

\* the key with the negative accumulator, a snapshot of three, a remainder
\* that is not zero
C4_Witness ==
    /\ ret.op = "GetPartitionForKey"
    /\ ret.key = KeyNeg
    /\ IsNeg64(HashOf[KeyNeg])
    /\ Len(ret.snap) = 3
    /\ ret.index = 1
    /\ ret.node = ret.snap[2]

\* C5: two GetPartitionForKey calls with the same non-empty key and the same
\* active membership return the same node.
C5_OwnerIsFunctionOfMembership ==
    [][ ( /\ ret.op = "GetPartitionForKey"
          /\ ret'.op = "GetPartitionForKey"
          /\ ret'.key = ret.key
          /\ Len(ret.key) > 0
          /\ nodes' = nodes
          /\ Range(ret'.snap) = Range(ret.snap) )
        => ret'.node = ret.node
      ]_vars

\* C6: GetActiveNodes returns the active nodes sorted by node id (hence in
\* the same order for the same registry content).
C6_SnapshotSortedById ==
    ret.op = "GetActiveNodes" => IsSortedById(ret.snap)

\* C7: with a replication factor <= 1 ReplicateData returns success and
\* posts no replication request.
C7_NoReplicationBelowTwo ==
    replicationFactor <= 1 =>
        /\ rpPushes = << >>
        /\ rpPc \in {"idle", "done"}
        /\ rpPc = "done" => rpResult = "ok"

\* factor 1, three active nodes, a call has returned
C7_Witness ==
    /\ replicationFactor = 1
    /\ rpPc = "done"
    /\ rpResult = "ok"
    /\ rpKey = KeyUser42
    /\ ActiveIds(nodes) = NodeIds

\* the step in which ReplicateData is entered
ReplicateEntered == rpPc \in {"idle", "done"} /\ rpVars' # rpVars

\* C8: with a factor >= 2 and fewer active nodes than the factor,
\* ReplicateData returns InsufficientReplicas, posts no request and leaves
\* the registry and the local store as they are.
C8_InsufficientReplicas ==
    [][ ( /\ ReplicateEntered
          /\ replicationFactor >= 2
          /\ Cardinality(ActiveIds(nodes)) < replicationFactor )
        => /\ rpPc' = "done"
           /\ rpResult' = "InsufficientReplicas"
           /\ rpPushes' = << >>
           /\ UNCHANGED <<nodes, keyValues>>
      ]_vars

\* factor 3, two active nodes, a written store, the call has failed
C8_Witness ==
    /\ replicationFactor = 3
    /\ rpPc = "done"
    /\ rpResult = "InsufficientReplicas"
    /\ Len(rpActive) = 2
    /\ rpPushes = << >>
    /\ keyValues[KeyUser42] # NoValue

\* both snapshots of a ReplicateData call saw self and the two peers active
ThreeActiveSeen ==
    /\ Range(rpActive) = NodeIds
    /\ Range(rpSnap) = NodeIds
    /\ Cardinality(NodeIds) = 3

\* C9: with factor 3 and exactly three active nodes (self and two peers) the
\* replica set is all three nodes, for every key, and exactly one request is
\* posted to each of the two peers.
C9_AllThreeSelected ==
    (rpPc = "done" /\ rpResult = "ok" /\ replicationFactor = 3 /\ ThreeActiveSeen) =>
        /\ Len(rpNodes) = 3
        /\ Range(rpNodes) = NodeIds
        /\ Len(rpPushes) = 2
        /\ {rpPushes[i].to : i \in DOMAIN rpPushes} = PeerIds

\* the two snapshots came in different orders and the primary is a peer
C9_Witness ==
    /\ rpPc = "done"
    /\ rpResult = "ok"
    /\ replicationFactor = 3
    /\ ThreeActiveSeen
    /\ rpSnap # rpActive
    /\ rpNodes[1] # SelfID
    /\ rpKey = KeyNeg
    /\ Len(rpPushes) = 2

\* C10: with self and two peers active and factor 2, replicating the key
\* "user:42" posts exactly one request, to one peer.
C10_OnePushForUser42 ==
    ( /\ rpPc = "done"
      /\ rpResult = "ok"
      /\ replicationFactor = 2
      /\ rpKey = KeyUser42
      /\ ThreeActiveSeen )
    => /\ Len(rpPushes) = 1
       /\ rpPushes[1].to \in PeerIds

\* both snapshots of a ReplicateData call saw the same active membership
MembershipUnchanged == Range(rpSnap) = Range(rpActive)

\* the replica at position i of the list is not repeated later in it
PairwiseDistinct(s) == \A i, j \in DOMAIN s : s[i] = s[j] => i = j

\* C11: for R >= 2 and N >= R active nodes, with the membership unchanged
\* during the call, the replica list is the primary followed by the nodes at
\* the next R-1 indices modulo N of the snapshot, counted from the primary's
\* position, and its R nodes are pairwise distinct.
C11_RingWalk ==
    ( /\ rpNodes # << >>
      /\ replicationFactor >= 2
      /\ MembershipUnchanged )
    => LET n == Len(rpActive)
           p == CHOOSE j \in DOMAIN rpActive : rpActive[j] = rpNodes[1]
       IN  /\ n >= replicationFactor
           /\ rpNodes[1] \in Range(rpActive)
           /\ Len(rpNodes) = replicationFactor
           /\ \A i \in 1..(replicationFactor - 1) :
                  rpNodes[i + 1] = rpActive[((p - 1 + i) % n) + 1]
           /\ PairwiseDistinct(rpNodes)

\* factor 3, the primary is the last entry of the snapshot: the walk wraps
C11_Witness ==
    /\ rpPc = "done"
    /\ rpResult = "ok"
    /\ replicationFactor = 3
    /\ MembershipUnchanged
    /\ Len(rpActive) = 3
    /\ rpNodes[1] = rpActive[3]
    /\ rpNodes[2] = rpActive[1]
    /\ rpNodes[3] = rpActive[2]

\* the targets of the requests posted so far
PushTargets == [i \in DOMAIN rpPushes |-> rpPushes[i].to]

\* the entries of s other than self, in order
NonSelf(s) == SelectSeq(s, LAMBDA id : id # SelfID)

C13_WriteIsReplicated ==
    [][ ( /\ keyValues' # keyValues
          /\ replicationFactor >= 2
          /\ Cardinality(ActiveIds(nodes)) >= replicationFactor )
        => /\ rpPc' = "primary"
           /\ keyValues'[rpKey'] # keyValues[rpKey']
      ]_vars

\* the step in which a gossip request of a peer is served
GossipServed == inbound' # inbound /\ inbound'.path = "/cluster/gossip"

Max(a, b) == IF a >= b THEN a ELSE b

\* C14: serving a gossip request inserts every received record whose id is
\* absent from the registry, and for an id that is present keeps the greater
\* last_seen.
C14_GossipMerged ==
    [][ GossipServed =>
          \A rec \in inbound'.body :
              /\ Present(nodes', rec.id)
              /\ IF Present(nodes, rec.id)
                 THEN nodes'[rec.id].lastSeen =
                          Max(nodes[rec.id].lastSeen, rec.lastSeen)
                 ELSE nodes'[rec.id].lastSeen = rec.lastSeen
      ]_vars

\* the received record is stale for a node that is active here
Stale(reg, rec) ==
    /\ Present(reg, rec.id)
    /\ reg[rec.id].status = "active"
    /\ rec.lastSeen <= reg[rec.id].lastSeen

\* C15: serving a gossip request never turns an active node inactive when the
\* gossiped record for it is stale (its last_seen is not greater than the
\* local one).
C15_NoStaleDowngrade ==
    [][ GossipServed =>
          \A rec \in inbound'.body :
              Stale(nodes, rec) => nodes'[rec.id].status = "active"
      ]_vars

\* a request that reports an active peer as inactive, with an older
\* last_seen, has been served
C15_Witness ==
    /\ inbound.path = "/cluster/gossip"
    /\ \E rec \in inbound.body :
        /\ rec.id \in PeerIds
        /\ rec.status = "inactive"
        /\ Stale(nodes, rec)
        /\ rec.lastSeen < nodes[rec.id].lastSeen

\* the last_seen values of id: the local one and those of the bodies
SeenValues(reg, id, bodies) ==
    (IF Present(reg, id) THEN {reg[id].lastSeen} ELSE {})
    \cup {rec.lastSeen : rec \in {r \in UNION bodies : r.id = id}}

MaxOf(S) == CHOOSE m \in S : \A x \in S : x <= m

\* C16: serving the same body twice leaves the registry as serving it once,
\* and serving two bodies in either order leaves, for every id of them, the
\* maximum of the last_seen values seen.
C16_MergeIdempotentCommutative ==
    \A b1, b2 \in GossipBodies :
        LET m1 == ServeGossip(nodes, b1)
            m12 == ServeGossip(m1, b2)
            m21 == ServeGossip(ServeGossip(nodes, b2), b1)
        IN  /\ ServeGossip(m1, b1) = m1
            /\ \A id \in BodyIds(b1) \cup BodyIds(b2) :
                   /\ Present(m12, id)
                   /\ Present(m21, id)
                   /\ m12[id].lastSeen = MaxOf(SeenValues(nodes, id, {b1, b2}))
                   /\ m21[id].lastSeen = m12[id].lastSeen

Min(a, b) == IF a <= b THEN a ELSE b

\* the loop of a round is over
RoundOver == gPc = "round" /\ gI = nodesToGossip

\* C17: a gossip round over at least 2 active nodes sends the active list to
\* exactly min(2, number of active peers other than self) peers, each an
\* active peer other than self.
C17_ExactlyMinPeers ==
    RoundOver =>
        /\ Range(gSent) \subseteq gActive \ {SelfID}
        /\ Cardinality(Range(gSent)) =
               Min(nodesToGossip, Cardinality(gActive \ {SelfID}))

\* C18: a round whose snapshot has at most 1 member sends nothing; no round
\* sends to the self node, and no round sends more than 2 messages.
C18_BoundedNoSelf ==
    /\ [](Len(gSent) <= nodesToGossip /\ SelfID \notin Range(gSent))
    /\ [][ (gPc = "idle" /\ gVars' # gVars
                /\ Cardinality(ActiveIds(nodes)) <= 1)
             => (gPc' = "idle" /\ gSent' = << >>) ]_vars
    /\ [][ Len(gSent') > Len(gSent)
             => (gPc = "round" /\ Cardinality(gActive) >= 2) ]_vars

\* a round is over in which the self node was picked once and skipped
C18_Witness ==
    /\ RoundOver
    /\ SelfID \in gActive
    /\ Len(gSent) = 1

\* steps of the two goroutines that act on the network or on the registry
ProbeStep == hbPc = "ping" /\ hbPc' = "update"
StatusUpdateStep == hbPc = "update" /\ hbPc' # hbPc
GossipSendStep == Len(gSent') > Len(gSent)

\* C19: once Close has returned, neither goroutine probes, sends gossip or
\* updates a status.
C19_QuietAfterClose ==
    [][ cancelled => ~(ProbeStep \/ StatusUpdateStep \/ GossipSendStep) ]_vars

BothExited == hbPc = "exited" /\ gPc = "exited"

\* C20: after Close, both loops exit in the end, and a loop exits only
\* between rounds, never out of a round in flight.
C20_CooperativeExit ==
    /\ cancelled ~> BothExited
    /\ [][ (hbPc' = "exited" /\ hbPc # "exited") => (hbPc = "idle" /\ cancelled)
         ]_vars
    /\ [][ (gPc' = "exited" /\ gPc # "exited") => (gPc = "idle" /\ cancelled)
         ]_vars
    /\ [][ (cancelled' /\ ~cancelled) => UNCHANGED <<hbVars, gVars>> ]_vars

\* Close has been called and both loops have exited, each after a round
\* that probed a peer or sent it the active list
C20_Witness ==
    /\ cancelled
    /\ BothExited
    /\ hbCur \in PeerIds
    /\ Len(gSent) >= 1

Is2xx(code) == code \in 200..299

\* C21: Join posts exactly one request, carrying the self node, to the join
\* endpoint of the seed; it returns JoinFailed on a network error and on any
\* status outside 2xx; it never retries, runs no gossip round and leaves the
\* registry as it is.
C21_JoinOnce ==
    /\ [](join.pc \in {"wait", "done"} =>
            /\ Len(join.reqs) = 1
            /\ join.reqs[1].path = "/cluster/join"
            /\ join.reqs[1].to \in SeedAddresses
            /\ join.reqs[1].body.id = SelfID)
    /\ []((join.pc = "done" /\ (join.resp.err \/ ~Is2xx(join.resp.code)))
            => join.result = "JoinFailed")
    /\ [][join' # join => UNCHANGED <<nodes, gVars>>]_vars

\* Join has failed on a 500 of the seed while two nodes are active
C21_Witness ==
    /\ join.pc = "done"
    /\ ~join.resp.err
    /\ join.resp.code = 500
    /\ join.result = "JoinFailed"
    /\ Cardinality(ActiveIds(nodes)) >= 2

\* the step in which a join request of a peer is served
JoinServed == inbound' # inbound /\ inbound'.path = "/cluster/join"

\* C22: a node of this program that is sent the Node of a joining peer
\* registers it, and the Join of the peer returns success.
C22_JoinRegisters ==
    [][ JoinServed =>
          /\ Present(nodes', inbound'.body.id)
          /\ JoinResult([err |-> FALSE, code |-> inbound'.code]) = "ok"
      ]_vars

\* C23: a task with a network call in flight (a probe, a gossip send, a
\* join, a replication push) does not hold the registry lock, shared or
\* exclusive.
C23_NoLockAcrossCall ==
    \A t \in Tasks : tasks[t].inflight => tasks[t].held = "none"

\* the probe of the heartbeat is in flight while AddNode holds the write lock
C23_Witness ==
    /\ tasks["heartbeat"].inflight
    /\ tasks["heartbeat"].target \in PeerIds
    /\ tasks["addNode"].held = "W"

\* C24: a record that a reader gets is never one that a mutation has left
\* half done (status written, last_seen not yet).
C24_ReadsCommitted == observed.rec \in observed.committed

PresentIds(reg) == {id \in NodeIds : Present(reg, id)}

\* C25: no entry is ever taken out of the registry: RemoveNode only sets the
\* status of an entry to inactive, does nothing for an unknown id, and in
\* every step the set of registered ids stays or grows.
C25_EntriesNeverRemoved ==
    /\ [][ /\ PresentIds(nodes) \subseteq PresentIds(nodes')
           /\ Cardinality(PresentIds(nodes)) <= Cardinality(PresentIds(nodes'))
         ]_vars
    /\ [](\A id \in NodeIds :
            LET reg == RemoveNodeReg(nodes, id)
            IN  /\ PresentIds(reg) = PresentIds(nodes)
                /\ ~Present(nodes, id) => reg = nodes
                /\ Present(nodes, id) =>
                     /\ reg[id] = [nodes[id] EXCEPT !.status = "inactive"]
                     /\ \A other \in NodeIds \ {id} : reg[other] = nodes[other])

\* a peer has been removed (no probe has been decided so far) and is still
\* registered, as inactive
C25_Witness ==
    /\ hbCur = Nil
    /\ \E id \in PeerIds :
        /\ Present(nodes, id)
        /\ nodes[id].status = "inactive"
    /\ Cardinality(PresentIds(nodes)) = 3

\* the step in which POST /cluster/nodes is served
AddServed == inbound' # inbound /\ inbound'.path = "/cluster/nodes"

\* C26: addNode(address, port) gives the node an id, status active and
\* last_seen = now, and inserts it; right after the call the returned node
\* is in the registry and in every list of active nodes.
C26_AddNodeInserts ==
    [][ AddServed =>
          LET node == inbound'.data
          IN  /\ node.id \in NodeIds
              /\ node.status = "active"
              /\ node.lastSeen = now
              /\ node.address = inbound'.body.address
              /\ node.port = inbound'.body.port
              /\ Present(nodes', node.id)
              /\ nodes'[node.id] =
                     Node(node.address, node.port, "active", now)
              /\ \A snap \in GetActiveNodes(nodes') : node.id \in Range(snap)
      ]_vars

\* node-2 has been added through the handler at time 1
C26_Witness ==
    /\ inbound.path = "/cluster/nodes"
    /\ inbound.data.id = "node-2"
    /\ inbound.data.lastSeen = 1
    /\ nodes["node-2"] = Node("localhost", "9090", "active", 1)

FailedHeartbeatRound ==
    /\ hbPc = "ping"
    /\ hbNodes = {}
    /\ hbCur \in PeerIds
    /\ ~hbAlive

\* performHeartbeat has taken its copy of the registry
HeartbeatRoundStarted == hbPc = "ping" /\ hbNodes # {}

\* a gossip round is over that posted at least one request (whose outcome
\* exchangeGossip only logs)
GossipRoundDone == RoundOver /\ Len(gSent) >= 1

\* C27: neither loop ends because of failures: a loop is left only after
\* cancellation, and after a round of failed probes, or of gossip requests,
\* a further round starts unless stop is signalled.
C27_LoopsSurviveFailures ==
    /\ [](~cancelled => (hbPc # "exited" /\ gPc # "exited"))
    /\ FailedHeartbeatRound ~> (cancelled \/ HeartbeatRoundStarted)
    /\ GossipRoundDone ~> (cancelled \/ gSent = << >>)

\* a further heartbeat round has started after the probe of a peer failed,
\* with no stop signalled
C27_Witness ==
    /\ ~cancelled
    /\ HeartbeatRoundStarted
    /\ hbCur \in PeerIds
    /\ ~hbAlive
    /\ hbCur \in hbNodes
    /\ nodes[hbCur].status = "inactive"

\* C29: the replication factor that the cluster layer reads is an integer
\* >= 1 whatever REPLICATION_FACTOR holds, and it never changes.
C29_FactorAtLeastOne ==
    /\ [](replicationFactor \in Int /\ replicationFactor >= 1)
    /\ [][replicationFactor' = replicationFactor]_vars

\* h * 31, with the wrap-around of the machine integer
Mul31(h) == Norm64(<<h[1] * 31, h[2] * 31, h[3] * 31, h[4] * 31>>)

\* h = h*31 + codepoint, seeded at 0, left to right
RECURSIVE RefHashFrom(_, _, _)
RefHashFrom(h, key, i) ==
    IF h \in Word64 /\ i <= Len(key)
    THEN RefHashFrom(AddRune(Mul31(h), key[i]), key, i + 1)
    ELSE h

RefHashOf == [key \in Keys |-> RefHashFrom(Zero64, key, 1)]

\* the limbs of |h|; the minimum integer has the magnitude 2^63
Magnitude(h) == IF IsNeg64(h) THEN Sub64(Zero64, h) ELSE h

\* abs(h) mod n
AbsMod(h, n) == UMod(Magnitude(h), n)

\* the minimum and the maximum integer, -1, 0 and 1
MinInt64 == <<0, 0, 0, LimbBase \div 2>>
EdgeWords ==
    {MinInt64, Sub64(MinInt64, AddRune(Zero64, 1)), Sub64(Zero64, AddRune(Zero64, 1)),
     Zero64, AddRune(Zero64, 1)}

\* C30: the index of GetPartitionForKey is abs(h) mod N for the accumulator
\* h = h*31 + codepoint (wrapping): the shift-and-subtract step gives the
\* same h for every key, and negating a negative remainder gives abs(h) mod
\* N for every N >= 1, also for the minimum integer.
C30_IndexIsAbsMod ==
    /\ \A key \in Keys : HashOf[key] = RefHashOf[key]
    /\ \A n \in 1..MaxN :
        /\ \A key \in Keys : PartitionIndex(key, n) = AbsMod(RefHashOf[key], n)
        /\ \A h \in EdgeWords : IndexOf(h, n) = AbsMod(h, n)
    /\ (ret.op = "GetPartitionForKey" /\ Len(ret.snap) >= 1) =>
           ret.index = AbsMod(RefHashOf[ret.key], Len(ret.snap))

\* the owner of the key with the negative accumulator has been looked up
\* among three nodes, at the index abs(h) mod 3, which is not 0
C30_Witness ==
    /\ ret.op = "GetPartitionForKey"
    /\ ret.key = KeyNeg
    /\ IsNeg64(RefHashOf[KeyNeg])
    /\ Len(ret.snap) = 3
    /\ ret.index = AbsMod(RefHashOf[KeyNeg], 3)
    /\ ret.index # 0

\* C31: the primary that the partitioner returned to ReplicateData is an
\* element of the snapshot that the ring walk indexes, so the position used
\* for the walk is the true position of the primary and never the 0 that
\* the lookup loop leaves when it finds nothing.
C31_PrimaryInWalkSnapshot ==
    rpNodes # << >> =>
        /\ rpNodes[1] \in Range(rpActive)
        /\ rpActive[PrimaryIdx(rpActive, rpNodes[1]) + 1] = rpNodes[1]

\* C32: once the count check of ReplicateData has passed, the partitioner
\* call returns a node, and the call does not crash on a nil primary.
C32_PrimaryNeverNil ==
    /\ rpResult # Panic
    /\ rpPc \in {"push", "done"} /\ rpSnap # << >> =>
           GetPartitionForKey(rpKey, rpSnap) # Nil

\* C33: the id that an addNode request assigns is not registered yet: no
\* record is overwritten and the registry grows by exactly one entry.
C33_AddCreatesEntry ==
    [][ AddServed =>
          /\ ~Present(nodes, inbound'.data.id)
          /\ Cardinality(PresentIds(nodes')) = Cardinality(PresentIds(nodes)) + 1
          /\ \A id \in PresentIds(nodes) : nodes'[id] = nodes[id]
      ]_vars

\* C34: every Node record that exchangeGossip serialises into its payload
\* has status active when it is serialised.
C34_PayloadActive ==
    observed.by = "gossip" => observed.rec.status = "active"

\* a document operation has just returned
DocCalled(op, collection, id) ==
    /\ dbRet' # dbRet
    /\ dbRet'.op = op
    /\ dbRet'.collection = collection
    /\ dbRet'.id = id

\* C37: the key of a document is collection + "." + id with nothing escaped,
\* so ("a.b", "c") and ("a", "b.c") have one key: a successful
\* InsertDocument("a.b", "c", d1) stores d1 under it, and while d1 is stored
\* there InsertDocument("a", "b.c", d2) fails with already-exists, changes
\* nothing, and GetDocument("a", "b.c") returns d1.
C37_KeyCollision ==
    [][ /\ DocCalled("InsertDocument", ColAB, IdC) /\ dbRet'.err = "" =>
            /\ DocKey(ColAB, IdC) \in DOMAIN documents'
            /\ documents'[DocKey(ColAB, IdC)] = dbRet'.arg
        /\ \A d1 \in Documents :
            ( /\ DocKey(ColAB, IdC) \in DOMAIN documents
              /\ documents[DocKey(ColAB, IdC)] = d1 ) =>
                /\ DocCalled("InsertDocument", ColA, IdBC) =>
                        dbRet'.err = "exists" /\ documents' = documents
                /\ DocCalled("GetDocument", ColA, IdBC) =>
                        dbRet'.err = "" /\ dbRet'.doc = <<d1>>
      ]_vars

\* InsertDocument("a", "b.c", d2) has failed on the document d1 that was
\* inserted as ("a.b", "c"), with d2 another document
C37_Witness ==
    /\ dbRet.op = "InsertDocument"
    /\ dbRet.collection = ColA /\ dbRet.id = IdBC
    /\ dbRet.err = "exists"
    /\ DocKey(ColAB, IdC) \in DOMAIN documents
    /\ documents[DocKey(ColAB, IdC)] # dbRet.arg

\* C38: a query for a non-empty collection returns only documents whose key
\* is that collection, the separator and an id.
C38_QueryExactCollection ==
    dbRet.op = "QueryDocuments" /\ dbRet.collection # << >> =>
        \A r \in dbRet.result :
            \E id \in DocIds : r.key = DocKey(dbRet.collection, id)

\* C39: every stored edge joins two stored nodes and every entry is stored
\* under its own id; CreateEdge with a missing source or target or with an
\* existing edge id, and CreateNode with an existing id, return an error
\* and leave the graph store unchanged.
C39_GraphConsistent ==
    /\ [](/\ \A e \in DOMAIN graphEdges :
                /\ graphEdges[e].id = e
                /\ graphEdges[e].from \in DOMAIN graphNodes
                /\ graphEdges[e].to \in DOMAIN graphNodes
          /\ \A n \in DOMAIN graphNodes : graphNodes[n].id = n)
    /\ [][ /\ ( /\ dbRet' # dbRet /\ dbRet'.op = "CreateEdge"
                /\ \/ dbRet'.id \in DOMAIN graphEdges
                   \/ dbRet'.from \notin DOMAIN graphNodes
                   \/ dbRet'.to \notin DOMAIN graphNodes ) =>
                    dbRet'.err # "" /\ UNCHANGED <<graphNodes, graphEdges>>
           /\ ( /\ dbRet' # dbRet /\ dbRet'.op = "CreateNode"
                /\ dbRet'.id \in DOMAIN graphNodes ) =>
                    dbRet'.err # "" /\ UNCHANGED <<graphNodes, graphEdges>>
           /\ dbRet' # dbRet /\ dbRet'.err # "" =>
                    UNCHANGED <<graphNodes, graphEdges>>
           /\ DOMAIN graphNodes \subseteq DOMAIN graphNodes'
         ]_vars

\* an edge is stored, and a CreateEdge to a node that is not stored has
\* just been refused
C39_Witness ==
    /\ DOMAIN graphEdges # {}
    /\ dbRet.op = "CreateEdge" /\ dbRet.err = "no target"
    /\ dbRet.from \in DOMAIN graphNodes

\* every probe of peer p succeeds
Reachable(p) == (hbPc = "update" /\ hbCur = p) => hbAlive

\* C35: a heartbeat round takes every registry entry whatever its status,
\* probes every non-self entry before it ends, and a successful probe sets
\* the node active; so a peer whose probes all succeed is eventually
\* active, as long as the detector has not been stopped.
C35_ProbesEveryNode ==
    /\ [][ /\ (hbPc = "idle" /\ hbPc' = "ping") =>
                hbNodes' = {id \in NodeIds : Present(nodes, id)}
           /\ \A id \in hbNodes \ hbNodes' :
                /\ hbPc = "ping"
                /\ id # SelfID => (hbPc' = "update" /\ hbCur' = id)
           /\ (hbPc = "ping" /\ hbPc' = "idle") => hbNodes = {}
           /\ ( /\ hbPc = "update" /\ hbPc' = "ping"
                /\ hbAlive /\ Present(nodes, hbCur) ) =>
                    nodes'[hbCur].status = "active"
         ]_vars
    /\ \A p \in PeerIds :
         []Reachable(p) =>
            (Present(nodes, p) ~> (p \in ActiveIds(nodes) \/ cancelled))

\* a peer marked inactive has answered a probe of a later round
C35_Witness ==
    /\ hbPc = "update"
    /\ hbCur \in PeerIds
    /\ hbAlive
    /\ Present(nodes, hbCur)
    /\ nodes[hbCur].status = "inactive"
    /\ ~cancelled

\* C36: a step of a heartbeat round adds and removes no entry, leaves the
\* self record, and every address and port, as they are, and changes the
\* record of the probed non-self node only; the steps of a gossip round, of
\* Join, of GetPartitionForKey and of ReplicateData leave the registry
\* unchanged.
C36_Frame ==
    [][ /\ hbVars' # hbVars =>
            /\ PresentIds(nodes') = PresentIds(nodes)
            /\ nodes'[SelfID] = nodes[SelfID]
            /\ \A id \in PresentIds(nodes) :
                /\ nodes'[id].address = nodes[id].address
                /\ nodes'[id].port = nodes[id].port
                /\ nodes'[id] # nodes[id] =>
                        hbPc = "update" /\ id = hbCur /\ id # SelfID
        /\ gVars' # gVars => nodes' = nodes
        /\ join' # join => nodes' = nodes
        /\ ret' # ret => nodes' = nodes
        /\ rpVars' # rpVars => nodes' = nodes
      ]_vars

\* ReplicateData has posted its requests and the failure detector has marked
\* a peer inactive
C36_Witness ==
    /\ rpPc = "done"
    /\ rpPushes # << >>
    /\ \E p \in PeerIds : Present(nodes, p) /\ nodes[p].status = "inactive"
====
